---------------------------- MODULE Spec2Model ----------------------------
(***************************************************************************)
(* The Google Workspace OAuth login of src/src/google/types.ts (the part   *)
(* that is google/auth.ts): the environment probe, the PKCE and state      *)
(* tokens, the one-shot callback listener on the fixed port, the manual    *)
(* paste-back flow, the token exchange and the local-to-manual fallback of *)
(* loginGoogleWorkspace; and the command google logout of                  *)
(* src/unnamed/part_002.                                                   *)
(*                                                                         *)
(* JavaScript strings are sequences of one-character strings, so that      *)
(* String.prototype.includes, concatenation and truthiness are computed as *)
(* the code computes them.  One action is one run of the event loop: the   *)
(* synchronous code from an event (a call, a settled await, an HTTP        *)
(* request, a listen error) up to the next await.                          *)
(***************************************************************************)
EXTENDS Integers, Sequences, FiniteSets, TLC

VARIABLES
  login,     \* per invocation of loginGoogleWorkspace: its position and locals
  server,    \* per invocation: the http.Server of startCallbackServer and its promise
  extBound,  \* whether a process outside the model holds REDIRECT_PORT
  refresh,   \* per invocation of refreshGoogleToken: its position and locals
  cli        \* the command google logout: the profile store and the command's locals

vars == <<login, server, extBound, refresh, cli>>

\* The processes on one host, each about to call loginGoogleWorkspace or
\* refreshGoogleToken.  Both names are hexadecimal digits: they seed the
\* random tokens of their invocation.
Invocations == {"a", "b"}

\* How many HTTP requests a listener is sent.
MaxRequests == 2

\* const REDIRECT_PORT = 51122
REDIRECT_PORT == 51122

\* The pathname of REDIRECT_URI, and a pathname that is not it.
CallbackPath == "/oauth-callback"
OtherPath == "/favicon.ico"

\* null and undefined: the value of an absent parameter, field or environment
\* variable.  It is no sequence of characters, so it differs from every string.
Null == <<"NULL">>

\* JavaScript truthiness of a string-or-null: neither absent nor empty.
Truthy(x) == x # Null /\ x # <<>>

\* String.prototype.includes
Includes(hay, needle) ==
  \E i \in 1..(Len(hay) - Len(needle) + 1) :
    \A j \in 1..Len(needle) : hay[i + j - 1] = needle[j]

UpperCase ==
  <<"A", "B", "C", "D", "E", "F", "G", "H", "I", "J", "K", "L", "M",
    "N", "O", "P", "Q", "R", "S", "T", "U", "V", "W", "X", "Y", "Z">>
LowerCase ==
  <<"a", "b", "c", "d", "e", "f", "g", "h", "i", "j", "k", "l", "m",
    "n", "o", "p", "q", "r", "s", "t", "u", "v", "w", "x", "y", "z">>

\* String.prototype.toLowerCase
ToLowerCase(s) ==
  [i \in 1..Len(s) |->
     IF \E k \in 1..Len(UpperCase) : UpperCase[k] = s[i]
     THEN LowerCase[CHOOSE k \in 1..Len(UpperCase) : UpperCase[k] = s[i]]
     ELSE s[i]]

\* getGoogleCredentials, the message of the Error thrown when GOOGLE_CLIENT_ID or
\* GOOGLE_CLIENT_SECRET is unset (the literal of lines 128-135)
MsgCredentialsNotConfigured ==
  <<"G", "o", "o", "g", "l", "e", " ", "O", "A", "u", "t", "h", " ", "c", "r", "e", "d", "e",
    "n", "t", "i", "a", "l", "s", " ", "n", "o", "t", " ", "c", "o", "n", "f", "i", "g", "u",
    "r", "e", "d", ".", "\n", "\n", "T", "o", " ", "u", "s", "e", " ", "G", "m", "a", "i", "l",
    "/", "C", "a", "l", "e", "n", "d", "a", "r", " ", "i", "n", "t", "e", "g", "r", "a", "t",
    "i", "o", "n", ":", "\n", "1", ".", " ", "G", "o", " ", "t", "o", " ", "h", "t", "t", "p",
    "s", ":", "/", "/", "c", "o", "n", "s", "o", "l", "e", ".", "c", "l", "o", "u", "d", ".",
    "g", "o", "o", "g", "l", "e", ".", "c", "o", "m", "/", "\n", "2", ".", " ", "C", "r", "e",
    "a", "t", "e", " ", "a", " ", "p", "r", "o", "j", "e", "c", "t", " ", "a", "n", "d", " ",
    "e", "n", "a", "b", "l", "e", " ", "G", "m", "a", "i", "l", " ", "A", "P", "I", " ", "+",
    " ", "C", "a", "l", "e", "n", "d", "a", "r", " ", "A", "P", "I", "\n", "3", ".", " ", "C",
    "r", "e", "a", "t", "e", " ", "O", "A", "u", "t", "h", " ", "2", ".", "0", " ", "c", "r",
    "e", "d", "e", "n", "t", "i", "a", "l", "s", " ", "(", "D", "e", "s", "k", "t", "o", "p",
    " ", "a", "p", "p", " ", "t", "y", "p", "e", ")", "\n", "4", ".", " ", "S", "e", "t", " ",
    "e", "n", "v", "i", "r", "o", "n", "m", "e", "n", "t", " ", "v", "a", "r", "i", "a", "b",
    "l", "e", "s", ":", "\n", " ", " ", " ", "e", "x", "p", "o", "r", "t", " ", "G", "O", "O",
    "G", "L", "E", "_", "C", "L", "I", "E", "N", "T", "_", "I", "D", "=", "'", "y", "o", "u",
    "r", "-", "c", "l", "i", "e", "n", "t", "-", "i", "d", "'", "\n", " ", " ", " ", "e", "x",
    "p", "o", "r", "t", " ", "G", "O", "O", "G", "L", "E", "_", "C", "L", "I", "E", "N", "T",
    "_", "S", "E", "C", "R", "E", "T", "=", "'", "y", "o", "u", "r", "-", "c", "l", "i", "e",
    "n", "t", "-", "s", "e", "c", "r", "e", "t", "'", "\n">>

\* "OAuth error: "
PrefixOAuthError ==
  <<"O", "A", "u", "t", "h", " ", "e", "r", "r", "o", "r", ":", " ">>

\* "Missing authorization code"
MsgMissingCode ==
  <<"M", "i", "s", "s", "i", "n", "g", " ", "a", "u", "t", "h", "o", "r", "i", "z", "a", "t",
    "i", "o", "n", " ", "c", "o", "d", "e">>

\* "OAuth state mismatch"
MsgStateMismatch ==
  <<"O", "A", "u", "t", "h", " ", "s", "t", "a", "t", "e", " ", "m", "i", "s", "m", "a", "t",
    "c", "h">>

\* "Token exchange failed: "
PrefixTokenExchangeFailed ==
  <<"T", "o", "k", "e", "n", " ", "e", "x", "c", "h", "a", "n", "g", "e", " ", "f", "a", "i",
    "l", "e", "d", ":", " ">>

\* "No refresh token received. You may need to revoke access at
\* https://myaccount.google.com/permissions and try again."
MsgNoRefreshToken ==
  <<"N", "o", " ", "r", "e", "f", "r", "e", "s", "h", " ", "t", "o", "k", "e", "n", " ", "r",
    "e", "c", "e", "i", "v", "e", "d", ".", " ", "Y", "o", "u", " ", "m", "a", "y", " ", "n",
    "e", "e", "d", " ", "t", "o", " ", "r", "e", "v", "o", "k", "e", " ", "a", "c", "c", "e",
    "s", "s", " ", "a", "t", " ", "h", "t", "t", "p", "s", ":", "/", "/", "m", "y", "a", "c",
    "c", "o", "u", "n", "t", ".", "g", "o", "o", "g", "l", "e", ".", "c", "o", "m", "/", "p",
    "e", "r", "m", "i", "s", "s", "i", "o", "n", "s", " ", "a", "n", "d", " ", "t", "r", "y",
    " ", "a", "g", "a", "i", "n", ".">>

\* "No input provided"
MsgNoInput ==
  <<"N", "o", " ", "i", "n", "p", "u", "t", " ", "p", "r", "o", "v", "i", "d", "e", "d">>

\* "Missing 'code' parameter in URL"
MsgMissingCodeParam ==
  <<"M", "i", "s", "s", "i", "n", "g", " ", "'", "c", "o", "d", "e", "'", " ", "p", "a", "r",
    "a", "m", "e", "t", "e", "r", " ", "i", "n", " ", "U", "R", "L">>

\* "Missing 'state' parameter. Paste the full URL."
MsgMissingStateParam ==
  <<"M", "i", "s", "s", "i", "n", "g", " ", "'", "s", "t", "a", "t", "e", "'", " ", "p", "a",
    "r", "a", "m", "e", "t", "e", "r", ".", " ", "P", "a", "s", "t", "e", " ", "t", "h", "e",
    " ", "f", "u", "l", "l", " ", "U", "R", "L", ".">>

\* "Paste the full redirect URL, not just the code."
MsgPasteFullUrl ==
  <<"P", "a", "s", "t", "e", " ", "t", "h", "e", " ", "f", "u", "l", "l", " ", "r", "e", "d",
    "i", "r", "e", "c", "t", " ", "U", "R", "L", ",", " ", "n", "o", "t", " ", "j", "u", "s",
    "t", " ", "t", "h", "e", " ", "c", "o", "d", "e", ".">>

\* "OAuth state mismatch - please try again"
MsgManualStateMismatch ==
  <<"O", "A", "u", "t", "h", " ", "s", "t", "a", "t", "e", " ", "m", "i", "s", "m", "a", "t",
    "c", "h", " ", "-", " ", "p", "l", "e", "a", "s", "e", " ", "t", "r", "y", " ", "a", "g",
    "a", "i", "n">>

\* "EADDRINUSE"
NeedleEADDRINUSE ==
  <<"E", "A", "D", "D", "R", "I", "N", "U", "S", "E">>

\* "port"
NeedlePort ==
  <<"p", "o", "r", "t">>

\* "listen"
NeedleListen ==
  <<"l", "i", "s", "t", "e", "n">>

\* the message node:net gives the listen error of a port already in use:
\* "listen EADDRINUSE: address already in use :::51122"
MsgListenEADDRINUSE ==
  <<"l", "i", "s", "t", "e", "n", " ", "E", "A", "D", "D", "R", "I", "N", "U", "S", "E", ":",
    " ", "a", "d", "d", "r", "e", "s", "s", " ", "a", "l", "r", "e", "a", "d", "y", " ", "i",
    "n", " ", "u", "s", "e", " ", ":", ":", ":", "5", "1", "1", "2", "2">>

\* the message node:net gives the listen error of a port the process may not bind:
\* "listen EACCES: permission denied :::51122"
MsgListenEACCES ==
  <<"l", "i", "s", "t", "e", "n", " ", "E", "A", "C", "C", "E", "S", ":", " ", "p", "e", "r",
    "m", "i", "s", "s", "i", "o", "n", " ", "d", "e", "n", "i", "e", "d", " ", ":", ":", ":",
    "5", "1", "1", "2", "2">>

\* the message of the TypeError fetch rejects with on a network error: "fetch failed"
MsgFetchFailed ==
  <<"f", "e", "t", "c", "h", " ", "f", "a", "i", "l", "e", "d">>

\* an error parameter of the provider's redirect: "access_denied"
AccessDenied ==
  <<"a", "c", "c", "e", "s", "s", "_", "d", "e", "n", "i", "e", "d">>

\* an error parameter of the provider's redirect: "unsupported_response_type"
UnsupportedResponseType ==
  <<"u", "n", "s", "u", "p", "p", "o", "r", "t", "e", "d", "_", "r", "e", "s", "p", "o", "n",
    "s", "e", "_", "t", "y", "p", "e">>

\* a token endpoint error body: {"error":"invalid_grant"}
BodyInvalidGrant ==
  <<"{", "\"", "e", "r", "r", "o", "r", "\"", ":", "\"", "i", "n", "v", "a", "l", "i", "d",
    "_", "g", "r", "a", "n", "t", "\"", "}">>

\* a token endpoint error body: {"error":"unsupported_grant_type"}
BodyUnsupportedGrantType ==
  <<"{", "\"", "e", "r", "r", "o", "r", "\"", ":", "\"", "u", "n", "s", "u", "p", "p", "o",
    "r", "t", "e", "d", "_", "g", "r", "a", "n", "t", "_", "t", "y", "p", "e", "\"", "}">>

\* a message a urlSink may throw: "spawn xdg-open ENOENT"
MsgSinkSpawnFailed ==
  <<"s", "p", "a", "w", "n", " ", "x", "d", "g", "-", "o", "p", "e", "n", " ", "E", "N", "O",
    "E", "N", "T">>

\* a message a urlSink may throw: "unsupported platform"
MsgSinkUnsupported ==
  <<"u", "n", "s", "u", "p", "p", "o", "r", "t", "e", "d", " ", "p", "l", "a", "t", "f", "o",
    "r", "m">>

\* "microsoft"
NeedleMicrosoft ==
  <<"m", "i", "c", "r", "o", "s", "o", "f", "t">>

\* "wsl"
NeedleWsl ==
  <<"w", "s", "l">>

\* "wsl2"
NeedleWsl2 ==
  <<"w", "s", "l", "2">>

\* "microsoft-standard"
NeedleMicrosoftStandard ==
  <<"m", "i", "c", "r", "o", "s", "o", "f", "t", "-", "s", "t", "a", "n", "d", "a", "r", "d">>

\* a /proc/version of a plain Linux kernel: "Linux version 6.1.0-18-amd64"
ProcVersionLinux ==
  <<"L", "i", "n", "u", "x", " ", "v", "e", "r", "s", "i", "o", "n", " ", "6", ".", "1", ".",
    "0", "-", "1", "8", "-", "a", "m", "d", "6", "4">>

\* a /proc/version of the first-generation compatibility layer:
\* "Linux version 4.4.0-19041-Microsoft"
ProcVersionWsl1 ==
  <<"L", "i", "n", "u", "x", " ", "v", "e", "r", "s", "i", "o", "n", " ", "4", ".", "4", ".",
    "0", "-", "1", "9", "0", "4", "1", "-", "M", "i", "c", "r", "o", "s", "o", "f", "t">>

\* a /proc/version of the second-generation compatibility layer:
\* "Linux version 5.15.90.1-microsoft-standard-WSL2"
ProcVersionWsl2 ==
  <<"L", "i", "n", "u", "x", " ", "v", "e", "r", "s", "i", "o", "n", " ", "5", ".", "1", "5",
    ".", "9", "0", ".", "1", "-", "m", "i", "c", "r", "o", "s", "o", "f", "t", "-", "s", "t",
    "a", "n", "d", "a", "r", "d", "-", "W", "S", "L", "2">>

\* an authorization code: "4/0Ab"
Code1 ==
  <<"4", "/", "0", "A", "b">>

\* another authorization code: "4/0Cd"
Code2 ==
  <<"4", "/", "0", "C", "d">>

\* a state parameter the program never minted: "f0"
Forged ==
  <<"f", "0">>

\* an access token: "ya29"
Access1 ==
  <<"y", "a", "2", "9">>

\* a refresh token: "1//0r"
Refresh1 ==
  <<"1", "/", "/", "0", "r">>

\* an email address: "u@x.io"
Email1 ==
  <<"u", "@", "x", ".", "i", "o">>

\* another email address: "v@x.io"
Email2 ==
  <<"v", "@", "x", ".", "i", "o">>

\* "Token refresh failed: "
PrefixTokenRefreshFailed ==
  <<"T", "o", "k", "e", "n", " ", "r", "e", "f", "r", "e", "s", "h", " ", "f", "a", "i", "l",
    "e", "d", ":", " ">>

\* operator input that is no URL: "4/0Ab"
NotAUrl ==
  <<"4", "/", "0", "A", "b">>

-----------------------------------------------------------------------------
(* The environment probe.                                                  *)

\* No Error.
NoError == [site |-> "none", message |-> <<>>]

\* getGoogleCredentials never throwing: what C15 excludes.
getGoogleCredentialsUnchecked(env) == NoError

\* getGoogleCredentials: the Error it throws, or NoError.  An environment
\* variable is TRUE when it is set to a non-empty string.
getGoogleCredentials(env) ==
  IF ~env.GOOGLE_CLIENT_ID \/ ~env.GOOGLE_CLIENT_SECRET
  THEN [site |-> "credentials", message |-> MsgCredentialsNotConfigured]
  ELSE NoError

\* isWSL.  env.procVersion is the content of /proc/version, Null when the
\* read throws.
isWSL(env) ==
  IF env.platform # "linux" THEN FALSE
  ELSE IF env.procVersion = Null THEN FALSE
  ELSE LET release == ToLowerCase(env.procVersion)
       IN  Includes(release, NeedleMicrosoft) \/ Includes(release, NeedleWsl)

\* isWSL2
isWSL2(env) ==
  IF ~isWSL(env) THEN FALSE
  ELSE IF env.procVersion = Null THEN FALSE
  ELSE LET version == ToLowerCase(env.procVersion)
       IN  Includes(version, NeedleWsl2) \/ Includes(version, NeedleMicrosoftStandard)

\* isRemoteEnvironment taking every Linux without a display for headless,
\* the compatibility layer too: what C16 excludes.
isRemoteEnvironmentCompatHeadless(env) ==
  IF env.SSH_CLIENT \/ env.SSH_TTY \/ env.SSH_CONNECTION THEN TRUE
  ELSE IF env.REMOTE_CONTAINERS \/ env.CODESPACES THEN TRUE
  ELSE IF env.platform = "linux" /\ ~env.DISPLAY /\ ~env.WAYLAND_DISPLAY THEN TRUE
  ELSE FALSE

\* isRemoteEnvironment
isRemoteEnvironment(env) ==
  IF env.SSH_CLIENT \/ env.SSH_TTY \/ env.SSH_CONNECTION THEN TRUE
  ELSE IF env.REMOTE_CONTAINERS \/ env.CODESPACES THEN TRUE
  ELSE IF env.platform = "linux" /\ ~env.DISPLAY /\ ~env.WAYLAND_DISPLAY /\ ~isWSL(env)
       THEN TRUE
  ELSE FALSE

\* shouldUseManualOAuthFlow never looking at the display variables: what C17
\* excludes.
shouldUseManualOAuthFlowDisplayBlind(env) ==
  isWSL2(env) \/ isRemoteEnvironment([env EXCEPT !.DISPLAY = FALSE, !.WAYLAND_DISPLAY = FALSE])

\* shouldUseManualOAuthFlow
shouldUseManualOAuthFlow(env) == isWSL2(env) \/ isRemoteEnvironment(env)

\* A desktop with a browser, and a host reached over SSH.
DesktopEnv ==
  [SSH_CLIENT |-> FALSE, SSH_TTY |-> FALSE, SSH_CONNECTION |-> FALSE,
   REMOTE_CONTAINERS |-> FALSE, CODESPACES |-> FALSE, platform |-> "darwin",
   DISPLAY |-> FALSE, WAYLAND_DISPLAY |-> FALSE, procVersion |-> Null,
   GOOGLE_CLIENT_ID |-> TRUE, GOOGLE_CLIENT_SECRET |-> TRUE]
SshEnv == [DesktopEnv EXCEPT !.SSH_CLIENT = TRUE, !.platform = "linux",
                             !.procVersion = ProcVersionLinux]

\* The environments a login is started in: each host with the client
\* credentials set, with the client id unset and with the client secret unset.
LoginEnvs ==
  {[h EXCEPT !.GOOGLE_CLIENT_ID = c[1], !.GOOGLE_CLIENT_SECRET = c[2]] :
     h \in {DesktopEnv, SshEnv}, c \in {<<TRUE, TRUE>>, <<FALSE, TRUE>>, <<TRUE, FALSE>>}}

\* Every combination of the inputs of the probe: the five markers and the two
\* display variables set or not, three platforms, /proc/version unreadable,
\* of a plain Linux, of the first and of the second generation of the
\* compatibility layer.  The client credentials are set.
ProbeEnvs ==
  {[SSH_CLIENT |-> m[1], SSH_TTY |-> m[2], SSH_CONNECTION |-> m[3],
    REMOTE_CONTAINERS |-> m[4], CODESPACES |-> m[5], platform |-> platform,
    DISPLAY |-> d[1], WAYLAND_DISPLAY |-> d[2], procVersion |-> procVersion,
    GOOGLE_CLIENT_ID |-> TRUE, GOOGLE_CLIENT_SECRET |-> TRUE] :
     m \in [1..5 -> BOOLEAN], d \in [1..2 -> BOOLEAN],
     platform \in {"linux", "darwin", "win32"},
     procVersion \in {Null, ProcVersionLinux, ProcVersionWsl1, ProcVersionWsl2}}

-----------------------------------------------------------------------------
(* PKCE, state token, authorization URL.                                   *)

HexDigits == <<"1", "2", "3", "4", "5", "6", "7", "8", "9">>

\* randomBytes(n).toString("hex"): 2n hexadecimal digits.  The k-th draw of
\* invocation p is a string no other draw returns (a source of randomness
\* does not repeat itself): its first digits are p and k.
randomHex(n, p, k) ==
  [i \in 1..(2 * n) |-> IF i = 1 THEN p ELSE IF i = 2 THEN HexDigits[k] ELSE "0"]

\* The value of a hexadecimal digit.
HexAlphabet ==
  <<"0", "1", "2", "3", "4", "5", "6", "7", "8", "9", "a", "b", "c", "d", "e", "f">>
HexValue(c) == (CHOOSE i \in 1..16 : HexAlphabet[i] = c) - 1

\* createHash("sha256").update(verifier).digest(): 32 bytes determined by the
\* verifier.  SHA-256 itself is not computed; the stand-in (the bytes the
\* verifier's 64 digits spell) has what the login relies on: it is a function
\* of the verifier and different verifiers give different digests.
DigestBytes == 32
sha256(verifier) ==
  [i \in 1..DigestBytes |->
     HexValue(verifier[2 * i - 1]) * 16 + HexValue(verifier[2 * i])]

\* The alphabet of Buffer's "base64url" encoding.
Base64UrlAlphabet ==
  <<"A", "B", "C", "D", "E", "F", "G", "H", "I", "J", "K", "L", "M",
    "N", "O", "P", "Q", "R", "S", "T", "U", "V", "W", "X", "Y", "Z",
    "a", "b", "c", "d", "e", "f", "g", "h", "i", "j", "k", "l", "m",
    "n", "o", "p", "q", "r", "s", "t", "u", "v", "w", "x", "y", "z",
    "0", "1", "2", "3", "4", "5", "6", "7", "8", "9", "-", "_">>

\* Bit k (from 0, most significant first) of a sequence of bytes, 0 past its
\* end.
BitOf(bytes, k) ==
  IF k >= 8 * Len(bytes) THEN 0
  ELSE (bytes[(k \div 8) + 1] \div (2 ^ (7 - (k % 8)))) % 2

\* The six bits from bit 6 * j as a number.
SextetOf(bytes, j) ==
  32 * BitOf(bytes, 6 * j) + 16 * BitOf(bytes, 6 * j + 1) + 8 * BitOf(bytes, 6 * j + 2)
    + 4 * BitOf(bytes, 6 * j + 3) + 2 * BitOf(bytes, 6 * j + 4) + BitOf(bytes, 6 * j + 5)

\* digest("base64url"): one character for every six bits, no padding.
base64url(bytes) ==
  [j \in 1..((8 * Len(bytes) + 5) \div 6) |-> Base64UrlAlphabet[SextetOf(bytes, j - 1) + 1]]

\* createHash("sha256").update(verifier).digest("base64url")
sha256Base64Url(verifier) == base64url(sha256(verifier))

\* generatePKCE returning the verifier as its own challenge: what C21
\* excludes.
generatePKCEPlain(p, k) ==
  LET verifier == randomHex(32, p, k)
  IN  [verifier |-> verifier, challenge |-> verifier]

\* generatePKCE, the k-th draw of invocation p giving the verifier
generatePKCE(p, k) ==
  LET verifier == randomHex(32, p, k)
  IN  [verifier |-> verifier, challenge |-> sha256Base64Url(verifier)]

\* The secrets of one mode attempt: generatePKCE() and
\* randomBytes(16).toString("hex"), two draws starting after `draws`.
mintSecrets(p, draws) ==
  LET pkce == generatePKCE(p, draws + 1)
  IN  [verifier |-> pkce.verifier, challenge |-> pkce.challenge,
       state |-> randomHex(16, p, draws + 2)]

NoSecrets == [verifier |-> Null, challenge |-> Null, state |-> Null]

\* buildAuthUrl: the parameters of the URL that vary between attempts.
buildAuthUrl(challenge, state) == [code_challenge |-> challenge, state |-> state]

-----------------------------------------------------------------------------
(* The callback listener.                                                   *)

Pending == [tag |-> "pending", code |-> Null, error |-> NoError]
Resolved(code) == [tag |-> "resolved", code |-> code, error |-> NoError]
Rejected(err) == [tag |-> "rejected", code |-> Null, error |-> err]

\* settle letting the last call win: what C6 excludes.
settleLast(current, outcome) == IF outcome.tag = "pending" THEN current ELSE outcome

\* resolve(...) and reject(...) of the promise of startCallbackServer: the
\* first call settles it, every later call does nothing.
settle(current, outcome) == IF current.tag = "pending" THEN outcome ELSE current

\* A request as the handler may see it: req.method, the pathname of req.url
\* and its search parameters code, state and error (Null when absent).
NoRequest == [method |-> "", path |-> "", code |-> Null, state |-> Null, error |-> Null]

\* handleRequest comparing the state before it looks for the code: what C5
\* excludes.
handleRequestStateFirst(req, expectedState) ==
  IF req.path # CallbackPath
  THEN [status |-> 404, call |-> Pending, close |-> FALSE]
  ELSE IF Truthy(req.error)
  THEN [status |-> 400,
        call |-> Rejected([site |-> "provider", message |-> PrefixOAuthError \o req.error]),
        close |-> TRUE]
  ELSE IF req.state # expectedState
  THEN [status |-> 400,
        call |-> Rejected([site |-> "stateMismatch", message |-> MsgStateMismatch]),
        close |-> TRUE]
  ELSE IF ~Truthy(req.code)
  THEN [status |-> 400,
        call |-> Rejected([site |-> "missingCode", message |-> MsgMissingCode]),
        close |-> TRUE]
  ELSE [status |-> 200, call |-> Resolved(req.code), close |-> FALSE]

\* handleRequest without the test of the pathname: what C7 excludes.
handleRequestAnyPath(req, expectedState) ==
  IF Truthy(req.error)
  THEN [status |-> 400,
        call |-> Rejected([site |-> "provider", message |-> PrefixOAuthError \o req.error]),
        close |-> TRUE]
  ELSE IF ~Truthy(req.code)
  THEN [status |-> 400,
        call |-> Rejected([site |-> "missingCode", message |-> MsgMissingCode]),
        close |-> TRUE]
  ELSE IF req.state # expectedState
  THEN [status |-> 400,
        call |-> Rejected([site |-> "stateMismatch", message |-> MsgStateMismatch]),
        close |-> TRUE]
  ELSE [status |-> 200, call |-> Resolved(req.code), close |-> FALSE]

\* handleRequest without the comparison of the state: what C22 excludes.
handleRequestAnyState(req, expectedState) ==
  IF req.path # CallbackPath
  THEN [status |-> 404, call |-> Pending, close |-> FALSE]
  ELSE IF Truthy(req.error)
  THEN [status |-> 400,
        call |-> Rejected([site |-> "provider", message |-> PrefixOAuthError \o req.error]),
        close |-> TRUE]
  ELSE IF ~Truthy(req.code)
  THEN [status |-> 400,
        call |-> Rejected([site |-> "missingCode", message |-> MsgMissingCode]),
        close |-> TRUE]
  ELSE [status |-> 200, call |-> Resolved(req.code), close |-> FALSE]

\* The request handler of startCallbackServer on one request: the status it
\* answers, the resolve or reject it calls (Pending: it calls neither) and
\* whether it calls server.close().
handleRequest(req, expectedState) ==
  IF req.path # CallbackPath
  THEN [status |-> 404, call |-> Pending, close |-> FALSE]
  ELSE IF Truthy(req.error)
  THEN [status |-> 400,
        call |-> Rejected([site |-> "provider", message |-> PrefixOAuthError \o req.error]),
        close |-> TRUE]
  ELSE IF ~Truthy(req.code)
  THEN [status |-> 400,
        call |-> Rejected([site |-> "missingCode", message |-> MsgMissingCode]),
        close |-> TRUE]
  ELSE IF req.state # expectedState
  THEN [status |-> 400,
        call |-> Rejected([site |-> "stateMismatch", message |-> MsgStateMismatch]),
        close |-> TRUE]
  ELSE [status |-> 200, call |-> Resolved(req.code), close |-> FALSE]

\* The server of an invocation that has not called startCallbackServer.
\*   started        startCallbackServer was called
\*   expectedState  its argument
\*   listening      the server holds REDIRECT_PORT
\*   listenError    the error of a failed listen, emitted as 'error'
\*   outcome        the state of the promise startCallbackServer returned
\*   awaited        the promise is awaited (a reaction is attached to it)
\*   handled        how many requests the handler has answered
\*   lastRequest, lastStatus   the last of them and the status it was answered
\*   firstCallback  the first of them to the callback path
NoServer ==
  [started |-> FALSE, expectedState |-> Null, listening |-> FALSE, listenError |-> NoError,
   outcome |-> Pending, awaited |-> FALSE, handled |-> 0, lastRequest |-> NoRequest,
   lastStatus |-> 0, firstCallback |-> NoRequest]

\* Whether anything holds REDIRECT_PORT.
portInUse(srv, ext) == ext \/ \E q \in Invocations : srv[q].listening

\* startCallbackServer binding a port that is already held: what C18
\* excludes.
startCallbackServerShared(expectedState, inUse, denied) ==
  [NoServer EXCEPT
     !.started = TRUE,
     !.expectedState = expectedState,
     !.listening = ~denied,
     !.listenError =
        IF denied THEN [site |-> "listen", message |-> MsgListenEACCES] ELSE NoError]

\* server.listen(REDIRECT_PORT) in startCallbackServer(expectedState): the
\* bind is made during the call, a failure is emitted as 'error' on a later
\* tick.  `denied` is whether the host refuses the process the port.
startCallbackServer(expectedState, inUse, denied) ==
  [NoServer EXCEPT
     !.started = TRUE,
     !.expectedState = expectedState,
     !.listening = ~inUse /\ ~denied,
     !.listenError =
        IF inUse THEN [site |-> "listen", message |-> MsgListenEADDRINUSE]
        ELSE IF denied THEN [site |-> "listen", message |-> MsgListenEACCES]
        ELSE NoError]

\* The catch of loginGoogleWorkspace: which errors of the local attempt start
\* the manual flow.
isFallbackError(err) ==
  \/ Includes(err.message, NeedleEADDRINUSE)
  \/ Includes(err.message, NeedlePort)
  \/ Includes(err.message, NeedleListen)

-----------------------------------------------------------------------------
(* The manual paste-back and the token exchange.                           *)

\* String.prototype.trim
WhiteSpace == {" ", "\t", "\n"}
Trim(s) ==
  LET inked == {i \in 1..Len(s) : s[i] \notin WhiteSpace}
  IN  IF inked = {} THEN <<>>
      ELSE SubSeq(s, CHOOSE i \in inked : \A j \in inked : i <= j,
                     CHOOSE i \in inked : \A j \in inked : i >= j)

\* What the operator types at the prompt, as new URL(trimmed) sees it: a URL
\* whose searchParams give code and state (Null when absent), or text that is
\* no URL, blank or not.  NoInput: nothing was typed yet.
NoInput == [kind |-> "none", code |-> Null, state |-> Null, text |-> <<>>]
BlankInput == [kind |-> "text", code |-> Null, state |-> Null, text |-> <<" ", " ">>]
UrlInput(code, state) == [kind |-> "url", code |-> code, state |-> state, text |-> <<>>]
TextInput(text) == [kind |-> "text", code |-> Null, state |-> Null, text |-> text]

\* promptInput: (await rl.question(message)).trim()
promptInput(line) == [line EXCEPT !.text = Trim(@)]

\* parseCallbackInput failing on a URL without a state parameter instead of
\* taking expectedState: what C12 excludes.
parseCallbackInputStateRequired(input, expectedState) ==
  LET trimmed == Trim(input.text)
  IN  IF input.kind # "url" /\ trimmed = <<>>
      THEN [error |-> MsgNoInput, code |-> Null, state |-> Null]
      ELSE IF input.kind = "url"
      THEN IF ~Truthy(input.code)
           THEN [error |-> MsgMissingCodeParam, code |-> Null, state |-> Null]
           ELSE IF ~Truthy(input.state)
           THEN [error |-> MsgMissingStateParam, code |-> Null, state |-> Null]
           ELSE [error |-> Null, code |-> input.code, state |-> input.state]
      ELSE IF ~Truthy(expectedState)
           THEN [error |-> MsgPasteFullUrl, code |-> Null, state |-> Null]
           ELSE [error |-> Null, code |-> trimmed, state |-> expectedState]

\* parseCallbackInput: error is the message of {error}, Null for {code, state}.
parseCallbackInput(input, expectedState) ==
  LET trimmed == Trim(input.text)
  IN  IF input.kind # "url" /\ trimmed = <<>>
      THEN [error |-> MsgNoInput, code |-> Null, state |-> Null]
      ELSE IF input.kind = "url"
      THEN LET code == input.code
               state == IF input.state # Null THEN input.state ELSE expectedState
           IN  IF ~Truthy(code)
               THEN [error |-> MsgMissingCodeParam, code |-> Null, state |-> Null]
               ELSE IF ~Truthy(state)
               THEN [error |-> MsgMissingStateParam, code |-> Null, state |-> Null]
               ELSE [error |-> Null, code |-> code, state |-> state]
      ELSE IF ~Truthy(expectedState)
           THEN [error |-> MsgPasteFullUrl, code |-> Null, state |-> Null]
           ELSE [error |-> Null, code |-> trimmed, state |-> expectedState]

\* Date.now() where exchangeCodeForTokens and refreshGoogleToken read it, in
\* milliseconds; expires_in of the token endpoint's answers, in seconds.
Clock == {1000000, 1700000000}
Lifetimes == {0, 3599}

\* The answers of the token endpoint to the authorization-code POST: fetch
\* rejects, a non-success status with a body, a success with its JSON.
NoTokenResponse ==
  [kind |-> "none", body |-> <<>>, access_token |-> Null, refresh_token |-> Null,
   expires_in |-> 0]
TokenResponses ==
  {[NoTokenResponse EXCEPT !.kind = "reject"]}
  \cup {[NoTokenResponse EXCEPT !.kind = "notOk", !.body = b] :
          b \in {BodyInvalidGrant, BodyUnsupportedGrantType}}
  \cup {[NoTokenResponse EXCEPT !.kind = "ok", !.access_token = Access1,
                                !.refresh_token = r, !.expires_in = ttl] :
          r \in {Null, <<>>, Refresh1}, ttl \in Lifetimes}

\* The answers of the userinfo endpoint: fetch rejects, a non-success status,
\* a success whose JSON has an email or none.
NoUserInfoResponse == [kind |-> "none", email |-> Null]
UserInfoResponses ==
  {[kind |-> "reject", email |-> Null], [kind |-> "notOk", email |-> Email1],
   [kind |-> "ok", email |-> Null], [kind |-> "ok", email |-> Email1]}

\* getUserEmail
getUserEmail(response) == IF response.kind = "ok" THEN response.email ELSE Null

\* expiresAt without the five minutes: what C19 excludes.
expiresAtUnskewed(now, expires_in) == now + expires_in * 1000

\* const expiresAt = Date.now() + data.expires_in * 1000 - 5 * 60 * 1000
expiresAt(now, expires_in) == now + expires_in * 1000 - 5 * 60 * 1000

-----------------------------------------------------------------------------
(* loginGoogleWorkspace.                                                    *)

NoCredential == [access |-> Null, refresh |-> Null, expires |-> 0, email |-> Null]
NoResult == [tag |-> "none", credential |-> NoCredential, error |-> NoError]

\* An invocation before loginGoogleWorkspace is called in environment env.
\*   pc        where the invocation is suspended: "init" before the call,
\*             "localUrl"/"manualUrl" in await onUrl(authUrl), "awaitServer"
\*             in await serverPromise, "prompt" in promptInput, "token" and
\*             "userinfo" in the two fetches of exchangeCodeForTokens, "done"
\*             and "failed" once loginGoogleWorkspace has returned or thrown,
\*             "exited" when the process ended, "off" for no call at all
\*   mode      the flow it is in: "none", "local", "manual"
\*   draws     how many random tokens it has drawn
\*   local     verifier, challenge, state of loginGoogleWorkspaceLocal
\*   manual    verifier, challenge, state of loginGoogleWorkspaceManual
\*   attempts  the flows it entered, in order
\*   urls      the URLs handed to onUrl, in order
\*   posts     the authorization-code POSTs sent to TOKEN_URL, in order
\*   prompts   how many times promptInput was called
\*   input     the line the operator typed at the prompt
\*   data      the JSON of the token endpoint's success response
\*   lookup    the answer of the userinfo endpoint to getUserEmail
\*   now       Date.now() as exchangeCodeForTokens read it
\*   result    what loginGoogleWorkspace returned or threw
NewLogin(env) ==
  [env |-> env, pc |-> "init", mode |-> "none", draws |-> 0, local |-> NoSecrets,
   manual |-> NoSecrets, attempts |-> <<>>, urls |-> <<>>, posts |-> <<>>, prompts |-> 0,
   input |-> NoInput, data |-> NoTokenResponse, lookup |-> NoUserInfoResponse, now |-> 0,
   result |-> NoResult]

\* loginGoogleWorkspace rejects with err.
fail(s, err) ==
  [s EXCEPT !.pc = "failed",
            !.result = [tag |-> "error", credential |-> NoCredential, error |-> err]]

\* loginGoogleWorkspaceManual not calling onUrl when a URL was handed over
\* before: what C10 excludes.
loginGoogleWorkspaceManualQuiet(s, p) ==
  LET secrets == mintSecrets(p, s.draws)
      s1 == [s EXCEPT !.mode = "manual", !.attempts = Append(@, "manual"),
                      !.draws = @ + 2, !.manual = secrets]
      err == getGoogleCredentials(s.env)
  IN  IF err # NoError
      THEN fail(s1, err)
      ELSE [s1 EXCEPT !.urls = IF @ = <<>>
                               THEN Append(@, buildAuthUrl(secrets.challenge, secrets.state))
                               ELSE @,
                      !.pc = "manualUrl"]

\* loginGoogleWorkspaceManual up to its await of onUrl(authUrl).
loginGoogleWorkspaceManual(s, p) ==
  LET secrets == mintSecrets(p, s.draws)
      s1 == [s EXCEPT !.mode = "manual", !.attempts = Append(@, "manual"),
                      !.draws = @ + 2, !.manual = secrets]
      err == getGoogleCredentials(s.env)
  IN  IF err # NoError
      THEN fail(s1, err)
      ELSE [s1 EXCEPT !.urls = Append(@, buildAuthUrl(secrets.challenge, secrets.state)),
                      !.pc = "manualUrl"]

\* The catch block of loginGoogleWorkspace around the local attempt.
catchLocal(s, p, err) ==
  IF isFallbackError(err) THEN loginGoogleWorkspaceManual(s, p) ELSE fail(s, err)

\* err is thrown in the flow the invocation is in: the local attempt runs
\* inside the try of loginGoogleWorkspace, the manual flow outside it.
throw(s, p, err) == IF s.mode = "local" THEN catchLocal(s, p, err) ELSE fail(s, err)

\* exchangeVerifier keeping the verifier of the first attempt: what C9 excludes.
exchangeVerifierFirst(s) ==
  IF s.local.verifier # Null THEN s.local.verifier ELSE s.manual.verifier

\* The verifier the flow passes to exchangeCodeForTokens: the one its own
\* generatePKCE() returned.
exchangeVerifier(s) == IF s.mode = "local" THEN s.local.verifier ELSE s.manual.verifier

\* exchangeCodeForTokens(code, verifier) up to its await of the POST.
exchangeCodeForTokens(s, p, code, verifier) ==
  LET err == getGoogleCredentials(s.env)
  IN  IF err # NoError
      THEN throw(s, p, err)
      ELSE [s EXCEPT !.posts = Append(@, [code |-> code, code_verifier |-> verifier,
                                          mode |-> s.mode]),
                     !.pc = "token"]

\* loginGoogleWorkspaceManual exchanging the code whatever state was parsed:
\* what C11 excludes.
loginGoogleWorkspaceManualUnchecked(s, p, input) ==
  LET state == s.manual.state
      parsed == parseCallbackInput(promptInput(input), state)
      s1 == [s EXCEPT !.input = input]
  IN  IF parsed.error # Null
      THEN throw(s1, p, [site |-> "parse", message |-> parsed.error])
      ELSE exchangeCodeForTokens(s1, p, parsed.code, exchangeVerifier(s1))

\* loginGoogleWorkspaceManual from the return of promptInput: the input is
\* parsed, its state is compared and the code is exchanged.
loginGoogleWorkspaceManualPasted(s, p, input) ==
  LET state == s.manual.state
      parsed == parseCallbackInput(promptInput(input), state)
      s1 == [s EXCEPT !.input = input]
  IN  IF parsed.error # Null
      THEN throw(s1, p, [site |-> "parse", message |-> parsed.error])
      ELSE IF parsed.state # state
      THEN throw(s1, p, [site |-> "manualStateMismatch",
                         message |-> MsgManualStateMismatch])
      ELSE exchangeCodeForTokens(s1, p, parsed.code, exchangeVerifier(s1))

\* exchangeCodeForTokens returning a credential whatever refresh_token the
\* response has: what C13 excludes.
exchangeCodeForTokensAnyRefresh(s, p, response) ==
  IF response.kind = "reject"
  THEN throw(s, p, [site |-> "fetch", message |-> MsgFetchFailed])
  ELSE IF response.kind = "notOk"
  THEN throw(s, p, [site |-> "exchange",
                    message |-> PrefixTokenExchangeFailed \o response.body])
  ELSE [s EXCEPT !.pc = "userinfo", !.data = response]

\* exchangeCodeForTokens from the answer to its POST up to the fetch of
\* getUserEmail.
exchangeCodeForTokensAnswered(s, p, response) ==
  IF response.kind = "reject"
  THEN throw(s, p, [site |-> "fetch", message |-> MsgFetchFailed])
  ELSE IF response.kind = "notOk"
  THEN throw(s, p, [site |-> "exchange",
                    message |-> PrefixTokenExchangeFailed \o response.body])
  ELSE IF ~Truthy(response.refresh_token)
  THEN throw([s EXCEPT !.data = response], p,
             [site |-> "noRefreshToken", message |-> MsgNoRefreshToken])
  ELSE [s EXCEPT !.pc = "userinfo", !.data = response]

\* The credential of lines 315-320.
credentialOf(s, response, now) ==
  [refresh |-> s.data.refresh_token,
   access |-> s.data.access_token,
   expires |-> expiresAt(now, s.data.expires_in),
   email |-> getUserEmail(response)]

\* exchangeCodeForTokens letting a failed lookup of the email fail the
\* exchange: what C14 excludes.
exchangeCodeForTokensLookupThrows(s, p, response, now) ==
  IF response.kind # "ok"
  THEN throw([s EXCEPT !.lookup = response], p,
             [site |-> "fetch", message |-> MsgFetchFailed])
  ELSE [s EXCEPT !.pc = "done", !.lookup = response, !.now = now,
                 !.result = [tag |-> "credential",
                             credential |-> credentialOf(s, response, now),
                             error |-> NoError]]

\* exchangeCodeForTokens from the answer to getUserEmail: it returns the
\* credential, and loginGoogleWorkspace returns it.
exchangeCodeForTokensLookedUp(s, p, response, now) ==
  [s EXCEPT !.pc = "done", !.lookup = response, !.now = now,
            !.result = [tag |-> "credential",
                        credential |-> credentialOf(s, response, now),
                        error |-> NoError]]

\* The answers of the token endpoint to the refresh POST.
RefreshResponses ==
  {[NoTokenResponse EXCEPT !.kind = "reject"],
   [NoTokenResponse EXCEPT !.kind = "notOk", !.body = BodyInvalidGrant]}
  \cup {[NoTokenResponse EXCEPT !.kind = "ok", !.access_token = Access1,
                                !.expires_in = ttl] : ttl \in Lifetimes}

\* A process that has not called refreshGoogleToken.
\*   pc      "idle", "token" in the await of the POST, "done", "failed"
\*   posts   the refresh POSTs sent to TOKEN_URL
\*   data    the JSON of the token endpoint's success response
\*   now     Date.now() as refreshGoogleToken read it
\*   result  what refreshGoogleToken returned or threw
NoRefreshResult == [tag |-> "none", access |-> Null, expires |-> 0, error |-> NoError]
NoRefresh ==
  [pc |-> "idle", posts |-> <<>>, data |-> NoTokenResponse, now |-> 0,
   result |-> NoRefreshResult]

\* refreshGoogleToken(refreshToken) up to its await of the POST.
refreshGoogleToken(r, env, refreshToken) ==
  LET err == getGoogleCredentials(env)
  IN  IF err # NoError
      THEN [r EXCEPT !.pc = "failed",
                     !.result = [NoRefreshResult EXCEPT !.tag = "error", !.error = err]]
      ELSE [r EXCEPT !.pc = "token",
                     !.posts = Append(@, [refresh_token |-> refreshToken])]

\* refreshGoogleToken from the answer to its POST.
refreshGoogleTokenAnswered(r, response, now) ==
  IF response.kind = "reject"
  THEN [r EXCEPT !.pc = "failed",
                 !.result = [NoRefreshResult EXCEPT
                               !.tag = "error",
                               !.error = [site |-> "fetch", message |-> MsgFetchFailed]]]
  ELSE IF response.kind = "notOk"
  THEN [r EXCEPT !.pc = "failed",
                 !.result = [NoRefreshResult EXCEPT
                               !.tag = "error",
                               !.error = [site |-> "refresh",
                                          message |-> PrefixTokenRefreshFailed
                                                        \o response.body]]]
  ELSE [r EXCEPT !.pc = "done", !.data = response, !.now = now,
                 !.result = [NoRefreshResult EXCEPT
                               !.tag = "tokens",
                               !.access = response.access_token,
                               !.expires = expiresAt(now, response.expires_in)]]

\* close leaving the server listening: what C3 excludes.
closeNothing(srv) == srv

\* close() of the resolved value of startCallbackServer, and the
\* server.close() of the handler.
close(srv) == [srv EXCEPT !.listening = FALSE]


-----------------------------------------------------------------------------
(* The command google logout of registerGoogleCli (src/unnamed/part_002).   *)

\* const PROVIDER_NAME = "google-workspace"
PROVIDER_NAME == "google-workspace"

\* The profiles a store may hold, by profile id: those google login writes
\* (`${PROVIDER_NAME}:${creds.email ?? "default"}`, type "oauth", with or
\* without an email), a profile of this provider of another type, which
\* carries no email, and profiles of other providers.
KnownProfiles ==
  [id \in {"google-workspace:u@x.io", "google-workspace:v@x.io",
           "google-workspace:default", "google-workspace:manual",
           "anthropic:u@x.io", "openai:default"} |->
     CASE id = "google-workspace:u@x.io" ->
            [type |-> "oauth", provider |-> PROVIDER_NAME, email |-> Email1]
       [] id = "google-workspace:v@x.io" ->
            [type |-> "oauth", provider |-> PROVIDER_NAME, email |-> Email2]
       [] id = "google-workspace:default" ->
            [type |-> "oauth", provider |-> PROVIDER_NAME, email |-> Null]
       [] id = "google-workspace:manual" ->
            [type |-> "token", provider |-> PROVIDER_NAME, email |-> Null]
       [] id = "anthropic:u@x.io" ->
            [type |-> "oauth", provider |-> "anthropic", email |-> Email1]
       [] id = "openai:default" ->
            [type |-> "api_key", provider |-> "openai", email |-> Null]]

\* store.profiles with the profiles of `ids` alone.
Only(profiles, ids) == [id \in (DOMAIN profiles) \cap ids |-> profiles[id]]

\* The stores ensureAuthProfileStore may load.
Stores == {Only(KnownProfiles, ids) : ids \in SUBSET (DOMAIN KnownProfiles)}

\* What --account may carry: nothing (the option is not given), the empty
\* string, an email address.
Accounts == {Null, <<>>, Email1, Email2}

\* listProfilesForProvider(store, provider): the ids of the profiles of the
\* provider.
listProfilesForProvider(profiles, provider) ==
  {id \in DOMAIN profiles : profiles[id].provider = provider}

\* The body of the for loop: whether the profile is skipped (continue).
skipped(cred, targetEmail) ==
  /\ Truthy(targetEmail)
  /\ cred.type = "oauth"
  /\ cred.email # targetEmail

\* The command before it has run.
NoCli ==
  [pc |-> "off", disk |-> Only(KnownProfiles, {}), loaded |-> Only(KnownProfiles, {}),
   account |-> Null, removed |-> 0, saves |-> 0, message |-> "", exitCode |-> 0]

\* The messages of the command, after the lines "Removed: <profileId>".
MsgNoneConfigured == "No Google Workspace accounts configured."
MsgRemovedAccounts == "Removed <removed> Google Workspace account(s)."
MsgNoAccountMatching == "No account found matching: <targetEmail>"
MsgLogoutFailed == "Google logout failed: <err>"

\* The action of the command logout with opts.account = account, on the
\* store in c.disk; saveThrows: saveAuthProfileStore throws.
logout(c, account, saveThrows) ==
  LET store == c.disk
      profiles == listProfilesForProvider(store, PROVIDER_NAME)
      targetEmail == account
      deleted == {id \in profiles : ~skipped(store[id], targetEmail)}
      removed == Cardinality(deleted)
      ran == [c EXCEPT !.loaded = store, !.account = account, !.pc = "done"]
  IN  IF profiles = {}
      THEN [ran EXCEPT !.message = MsgNoneConfigured]
      ELSE IF removed > 0
      THEN IF saveThrows
           THEN [ran EXCEPT !.removed = removed, !.saves = @ + 1,
                            !.message = MsgLogoutFailed, !.exitCode = 1]
           ELSE [ran EXCEPT !.removed = removed, !.saves = @ + 1,
                            !.disk = Only(store, (DOMAIN store) \ deleted),
                            !.message = MsgRemovedAccounts]
      ELSE IF Truthy(targetEmail)
      THEN [ran EXCEPT !.message = MsgNoAccountMatching]
      ELSE ran
-----------------------------------------------------------------------------
(* The environment's inputs.                                                *)

\* The state parameters a request may carry: none, a forged one, and every
\* state token minted so far by any invocation.
StateParams ==
  {Null, Forged} \cup {login[q].local.state : q \in Invocations}
                 \cup {login[q].manual.state : q \in Invocations}

\* The methods, other than GET, of the requests sent to a listener.
OtherMethods == {"POST"}

\* The HTTP requests sent to a listener, as new URL(req.url, ...) sees them:
\* pathname and the searchParams code, state and error (Null when absent).
\* The requests with another method than GET carry a code, with and without
\* an error.
Requests ==
  {[NoRequest EXCEPT !.method = "GET", !.path = OtherPath]}
  \cup {[method |-> "GET", path |-> CallbackPath, code |-> c, state |-> st, error |-> e] :
          c \in {Null, <<>>, Code1, Code2}, st \in StateParams,
          e \in {Null, <<>>, AccessDenied, UnsupportedResponseType}}
  \cup {[method |-> m, path |-> CallbackPath, code |-> Code1, state |-> st, error |-> e] :
          m \in OtherMethods, st \in StateParams, e \in {Null, AccessDenied}}

\* What the operator may type at the prompt: blanks, text that is no URL
\* (bare or between white space), and URLs with no, an empty or a non-empty
\* code parameter and with no, an empty, a forged or a minted state parameter.
Inputs ==
  {BlankInput, TextInput(NotAUrl), TextInput(<<" ">> \o NotAUrl \o <<"\n">>)}
  \cup {UrlInput(c, st) : c \in {Null, <<>>, Code1}, st \in StateParams \cup {<<>>}}

\* The messages of the errors the caller's onUrl may throw.
SinkErrors == {MsgSinkSpawnFailed, MsgSinkUnsupported}

-----------------------------------------------------------------------------
(* The actions.                                                             *)

\* The processes in `callers` are about to call loginGoogleWorkspace or
\* refreshGoogleToken, each in one of the environments, and the others call
\* neither; no listener exists;
\* the port is free or held by another process.
InitWith(callers) ==
  /\ login \in {[p \in Invocations |->
                   IF p \in callers THEN NewLogin(envOf[p])
                   ELSE [NewLogin(DesktopEnv) EXCEPT !.pc = "off"]] :
                envOf \in [callers -> LoginEnvs]}
  /\ server = [p \in Invocations |-> NoServer]
  /\ extBound \in BOOLEAN
  /\ refresh = [p \in Invocations |-> NoRefresh]
  /\ cli = NoCli

\* One process on the host.
Init == InitWith({"a"})

\* Login handing the URL to onUrl with no listener started: what C23
\* excludes.
LoginUrlFirst(p) ==
  /\ login[p].pc = "init"
  /\ LET s == login[p]
         secrets == mintSecrets(p, s.draws)
     IN  login' = [login EXCEPT ![p] =
           [s EXCEPT !.mode = "local", !.attempts = Append(@, "local"),
                     !.draws = @ + 2, !.local = secrets,
                     !.urls = Append(@, buildAuthUrl(secrets.challenge, secrets.state)),
                     !.pc = "localUrl"]]
  /\ UNCHANGED <<server, extBound, refresh, cli>>

\* loginGoogleWorkspace(onUrl, onProgress) is called: the probe, then the
\* manual flow, or loginGoogleWorkspaceLocal up to its await of onUrl(authUrl)
\* with the listener started before the URL is handed over.
Login(p) ==
  /\ login[p].pc = "init"
  /\ LET s == login[p]
         secrets == mintSecrets(p, s.draws)
         s1 == [s EXCEPT !.mode = "local", !.attempts = Append(@, "local"),
                         !.draws = @ + 2, !.local = secrets]
         err == getGoogleCredentials(s.env)
     IN  IF shouldUseManualOAuthFlow(s.env)
         THEN /\ login' = [login EXCEPT ![p] = loginGoogleWorkspaceManual(s, p)]
              /\ UNCHANGED server
         ELSE IF err # NoError
         THEN /\ login' = [login EXCEPT ![p] = catchLocal(s1, p, err)]
              /\ UNCHANGED server
         ELSE \E denied \in BOOLEAN :
                /\ server' = [server EXCEPT ![p] =
                     startCallbackServer(secrets.state, portInUse(server, extBound), denied)]
                /\ login' = [login EXCEPT ![p] =
                     [s1 EXCEPT !.urls = Append(@, buildAuthUrl(secrets.challenge,
                                                                secrets.state)),
                                !.pc = "localUrl"]]
  /\ UNCHANGED <<extBound, refresh, cli>>

\* server.on("error"): the failed listen is emitted and the handler rejects.
ListenError(p) ==
  /\ server[p].listenError # NoError
  /\ server[p].outcome.tag = "pending"
  /\ server' = [server EXCEPT ![p].outcome = settle(@, Rejected(server[p].listenError))]
  /\ UNCHANGED <<login, extBound, refresh, cli>>

\* The listener of p handles one HTTP request.
HttpRequest(p, req) ==
  /\ server[p].listening
  /\ server[p].handled < MaxRequests
  /\ LET srv == server[p]
         h == handleRequest(req, srv.expectedState)
         answered == [srv EXCEPT
                        !.outcome = settle(@, h.call),
                        !.handled = @ + 1,
                        !.lastRequest = req,
                        !.lastStatus = h.status,
                        !.firstCallback =
                           IF @ = NoRequest /\ req.path = CallbackPath THEN req ELSE @]
     IN  server' = [server EXCEPT ![p] = IF h.close THEN close(answered) ELSE answered]
  /\ UNCHANGED <<login, extBound, refresh, cli>>

\* onUrl(authUrl) of the local attempt returns: the attempt awaits the listener.
LocalUrlSinkReturns(p) ==
  /\ login[p].pc = "localUrl"
  /\ login' = [login EXCEPT ![p].pc = "awaitServer"]
  /\ server' = [server EXCEPT ![p].awaited = TRUE]
  /\ UNCHANGED <<extBound, refresh, cli>>

\* serverPromise is created on line 499 and awaited on line 504, after the
\* await of onUrl(authUrl): until then no reaction is attached to it.  When it
\* is rejected meanwhile (the listen error, a failing callback request) and the
\* turn of the event loop ends before onUrl has returned, the rejection is an
\* unhandled one.  What follows is the host's choice: Node, which this module
\* needs from version 18 (fetch, node:readline/promises), by default raises it
\* as an uncaught exception and the process ends (this action); a host set to
\* warn or to ignore goes on, as does one where onUrl returns within the same
\* turn (LocalUrlSinkReturns).  A process that ends gives up the port.
UnhandledRejection(p) ==
  /\ login[p].pc \in {"localUrl", "manualUrl", "prompt", "token", "userinfo"}
  /\ server[p].outcome.tag = "rejected"
  /\ ~server[p].awaited
  /\ login' = [login EXCEPT ![p].pc = "exited"]
  /\ server' = [server EXCEPT ![p].listening = FALSE]
  /\ UNCHANGED <<extBound, refresh, cli>>

\* onUrl(authUrl) of the manual flow returns: the instructions are printed
\* and promptInput is called.
ManualUrlSinkReturns(p) ==
  /\ login[p].pc = "manualUrl"
  /\ login' = [login EXCEPT ![p].pc = "prompt", ![p].prompts = @ + 1]
  /\ UNCHANGED <<server, extBound, refresh, cli>>

\* onUrl(authUrl) throws or rejects.
UrlSinkThrows(p, message) ==
  /\ login[p].pc \in {"localUrl", "manualUrl"}
  /\ login' = [login EXCEPT ![p] =
       throw(login[p], p, [site |-> "urlSink", message |-> message])]
  /\ UNCHANGED <<server, extBound, refresh, cli>>

\* The await of serverPromise resumes: with {code, close}, close() and the
\* exchange; with the rejection, which is thrown.
AwaitServer(p) ==
  /\ login[p].pc = "awaitServer"
  /\ server[p].outcome.tag # "pending"
  /\ LET s == login[p]
         outcome == server[p].outcome
     IN  IF outcome.tag = "resolved"
         THEN /\ server' = [server EXCEPT ![p] = close(server[p])]
              /\ login' = [login EXCEPT ![p] =
                   exchangeCodeForTokens(s, p, outcome.code, exchangeVerifier(s))]
         ELSE /\ login' = [login EXCEPT ![p] = throw(s, p, outcome.error)]
              /\ UNCHANGED server
  /\ UNCHANGED <<extBound, refresh, cli>>

\* promptInput returns what the operator typed.
OperatorInput(p, input) ==
  /\ login[p].pc = "prompt"
  /\ login' = [login EXCEPT ![p] = loginGoogleWorkspaceManualPasted(login[p], p, input)]
  /\ UNCHANGED <<server, extBound, refresh, cli>>

\* The token endpoint answers the POST of exchangeCodeForTokens.
TokenResponse(p, response) ==
  /\ login[p].pc = "token"
  /\ login' = [login EXCEPT ![p] = exchangeCodeForTokensAnswered(login[p], p, response)]
  /\ UNCHANGED <<server, extBound, refresh, cli>>

\* The userinfo endpoint answers getUserEmail, Date.now() is read.
UserInfoResponse(p, response, now) ==
  /\ login[p].pc = "userinfo"
  /\ login' = [login EXCEPT ![p] =
       exchangeCodeForTokensLookedUp(login[p], p, response, now)]
  /\ UNCHANGED <<server, extBound, refresh, cli>>

\* The process calls refreshGoogleToken(refreshToken), not loginGoogleWorkspace.
Refresh(p, refreshToken) ==
  /\ login[p].pc = "init"
  /\ refresh[p].pc = "idle"
  /\ login' = [login EXCEPT ![p].pc = "off"]
  /\ refresh' = [refresh EXCEPT ![p] =
       refreshGoogleToken(refresh[p], login[p].env, refreshToken)]
  /\ UNCHANGED <<server, extBound, cli>>

\* The token endpoint answers the POST of refreshGoogleToken, Date.now() is
\* read.
RefreshResponse(p, response, now) ==
  /\ refresh[p].pc = "token"
  /\ refresh' = [refresh EXCEPT ![p] = refreshGoogleTokenAnswered(refresh[p], response, now)]
  /\ UNCHANGED <<login, server, extBound, cli>>

Next ==
  \E p \in Invocations :
    \/ Login(p)
    \/ ListenError(p)
    \/ \E req \in Requests : HttpRequest(p, req)
    \/ LocalUrlSinkReturns(p)
    \/ UnhandledRejection(p)
    \/ ManualUrlSinkReturns(p)
    \/ \E message \in SinkErrors : UrlSinkThrows(p, message)
    \/ AwaitServer(p)
    \/ \E input \in Inputs : OperatorInput(p, input)
    \/ \E response \in TokenResponses : TokenResponse(p, response)
    \/ \E response \in UserInfoResponses, now \in Clock : UserInfoResponse(p, response, now)
    \/ Refresh(p, Refresh1)
    \/ \E response \in RefreshResponses, now \in Clock : RefreshResponse(p, response, now)

Spec == Init /\ [][Next]_vars

\* The probe alone: loginGoogleWorkspace is called once in each combination
\* of the probe's inputs.
ProbeInit ==
  /\ login \in {[p \in Invocations |->
                   IF p = "a" THEN NewLogin(env)
                   ELSE [NewLogin(DesktopEnv) EXCEPT !.pc = "off"]] : env \in ProbeEnvs}
  /\ server = [p \in Invocations |-> NoServer]
  /\ extBound \in BOOLEAN
  /\ refresh = [p \in Invocations |-> NoRefresh]
  /\ cli = NoCli

ProbeNext == \E p \in Invocations : Login(p)

ProbeSpec == ProbeInit /\ [][ProbeNext]_vars


\* Two logins at once on a desktop whose port no other process holds.  What
\* reaches them is cut down to what concerns the port: callback requests with
\* a code and a state (forged, or minted by either login), pasted URLs
\* likewise; the logins are followed up to their POST.
ConcurrentInit ==
  /\ login = [p \in Invocations |-> NewLogin(DesktopEnv)]
  /\ server = [p \in Invocations |-> NoServer]
  /\ extBound = FALSE
  /\ refresh = [p \in Invocations |-> NoRefresh]
  /\ cli = NoCli

ConcurrentRequests ==
  {[method |-> "GET", path |-> CallbackPath, code |-> c, state |-> st, error |-> Null] :
     c \in {Code1, Code2}, st \in StateParams \ {Null}}

ConcurrentInputs == {UrlInput(Code1, st) : st \in StateParams \ {Null}}

ConcurrentNext ==
  \E p \in Invocations :
    \/ Login(p)
    \/ ListenError(p)
    \/ \E req \in ConcurrentRequests : HttpRequest(p, req)
    \/ LocalUrlSinkReturns(p)
    \/ UnhandledRejection(p)
    \/ ManualUrlSinkReturns(p)
    \/ AwaitServer(p)
    \/ \E input \in ConcurrentInputs : OperatorInput(p, input)

ConcurrentSpec == ConcurrentInit /\ [][ConcurrentNext]_vars


\* One login whose awaited external events all eventually occur.  The
\* requests that reach the listener are those to the callback path; onUrl
\* returns (it may also throw), the failed listen is emitted, the operator
\* enters a line, the token and the userinfo endpoint answer, and a settled
\* promise resumes its await.
CallbackRequests == {req \in Requests : req.path = CallbackPath}

FairNext ==
  \E p \in Invocations :
    \/ Login(p)
    \/ ListenError(p)
    \/ \E req \in CallbackRequests : HttpRequest(p, req)
    \/ LocalUrlSinkReturns(p)
    \/ UnhandledRejection(p)
    \/ ManualUrlSinkReturns(p)
    \/ \E message \in SinkErrors : UrlSinkThrows(p, message)
    \/ AwaitServer(p)
    \/ \E input \in Inputs : OperatorInput(p, input)
    \/ \E response \in TokenResponses : TokenResponse(p, response)
    \/ \E response \in UserInfoResponses, now \in Clock : UserInfoResponse(p, response, now)

Fairness ==
  \A p \in Invocations :
    /\ WF_vars(LocalUrlSinkReturns(p))
    /\ WF_vars(ManualUrlSinkReturns(p))
    /\ WF_vars(ListenError(p))
    /\ WF_vars(\E req \in CallbackRequests : HttpRequest(p, req))
    /\ WF_vars(AwaitServer(p))
    /\ WF_vars(\E input \in Inputs : OperatorInput(p, input))
    /\ WF_vars(\E response \in TokenResponses : TokenResponse(p, response))
    /\ WF_vars(\E response \in UserInfoResponses, now \in Clock :
                 UserInfoResponse(p, response, now))

FairSpec == Init /\ [][FairNext]_vars /\ Fairness


\* google logout [--account <email>] is run once, on any of the stores.
LogoutInit ==
  /\ login = [p \in Invocations |-> [NewLogin(DesktopEnv) EXCEPT !.pc = "off"]]
  /\ server = [p \in Invocations |-> NoServer]
  /\ extBound = FALSE
  /\ refresh = [p \in Invocations |-> NoRefresh]
  /\ cli \in {[NoCli EXCEPT !.pc = "idle", !.disk = store] : store \in Stores}

\* The action handler of the command runs: it has no await.
Logout(account, saveThrows) ==
  /\ cli.pc = "idle"
  /\ cli' = logout(cli, account, saveThrows)
  /\ UNCHANGED <<login, server, extBound, refresh>>

LogoutNext == \E account \in Accounts, saveThrows \in BOOLEAN : Logout(account, saveThrows)

LogoutSpec == LogoutInit /\ [][LogoutNext]_vars
-----------------------------------------------------------------------------
(* The properties.                                                          *)

Last(seq) == seq[Len(seq)]

\* The posts of invocation p made by the flow `mode`.
PostsOf(p, mode) == {i \in 1..Len(login[p].posts) : login[p].posts[i].mode = mode}

\* C1: loginGoogleWorkspace starts the manual flow after the local attempt only
\* when the callback listener failed to bind the port; every other failure of
\* the local attempt ends the login with that failure.
C1_FallbackOnlyOnBindFailure ==
  \A p \in Invocations :
    login[p].attempts = <<"local", "manual">> => server[p].listenError # NoError

\* C2: once loginGoogleWorkspace has returned (a credential or any failure),
\* the listener it started no longer holds the port.
C2_ReturnedLoginReleasedPort ==
  \A p \in Invocations :
    login[p].pc \in {"done", "failed"} => ~server[p].listening

LocalSinkThrew(p) ==
  /\ login[p].pc = "failed"
  /\ login[p].mode = "local"
  /\ login[p].result.error.site = "urlSink"

\* What C4 says of invocation p once its local attempt is over: the login is
\* in the manual flow and has handed onUrl a second URL whose state and
\* code_challenge both differ from the first's.
FellBackWithFreshUrl(p) ==
  /\ login[p].mode = "manual"
  /\ login[p].attempts = <<"local", "manual">>
  /\ Len(login[p].urls) = 2
  /\ login[p].urls[1].state # login[p].urls[2].state
  /\ login[p].urls[1].code_challenge # login[p].urls[2].code_challenge

\* C4: when the listener of the local attempt fails to bind because the port
\* is in use, then, whether the failure is emitted before or after onUrl has
\* returned, the login goes on in the manual flow and hands onUrl a second URL
\* whose state and code_challenge both differ from the first's.  Stated of
\* every login that is past its local attempt and whose onUrl did not throw.
C4_BindFailureFallsBackWithFreshUrl ==
  \A p \in Invocations :
    (server[p].listenError.message = MsgListenEADDRINUSE
      /\ login[p].pc \notin {"localUrl", "awaitServer"}
      /\ ~LocalSinkThrew(p)) => FellBackWithFreshUrl(p)

\* What C5 says of the last request a listener handled, errorGiven telling
\* when the request counts as carrying an error parameter.
ClassifiedInPrecedence(srv, errorGiven) ==
  LET r == srv.lastRequest
      first == srv.handled = 1
  IN  (srv.handled > 0 /\ r.path = CallbackPath) =>
        IF errorGiven
        THEN /\ srv.lastStatus = 400
             /\ ~srv.listening
             /\ first => /\ srv.outcome.tag = "rejected"
                         /\ srv.outcome.error.message = PrefixOAuthError \o r.error
        ELSE IF r.code = Null \/ r.code = <<>>
        THEN /\ srv.lastStatus = 400
             /\ ~srv.listening
             /\ first => /\ srv.outcome.tag = "rejected"
                         /\ srv.outcome.error.message = MsgMissingCode
        ELSE IF r.state # srv.expectedState
        THEN /\ srv.lastStatus = 400
             /\ ~srv.listening
             /\ first => /\ srv.outcome.tag = "rejected"
                         /\ srv.outcome.error.message = MsgStateMismatch
        ELSE /\ srv.lastStatus = 200
             /\ first => srv.outcome = Resolved(r.code)

\* C5 as stated: a request to the callback path with an error parameter
\* present is a provider error (400); otherwise one with no or an empty code
\* is a missing code (400); otherwise one whose state is not the attempt's is
\* a state mismatch (400); otherwise it is a success (200) with its code.  The
\* listener is closed in the three failure cases.
C5_ErrorPresentPrecedence ==
  \A p \in Invocations :
    ClassifiedInPrecedence(server[p], server[p].lastRequest.error # Null)

\* C5 as amended: the same, where the provider error is a request whose error
\* parameter is present and not empty; an empty error parameter is ignored.
C5_ErrorNonEmptyPrecedence ==
  \A p \in Invocations :
    ClassifiedInPrecedence(server[p], server[p].lastRequest.error \notin {Null, <<>>})

C5_Witness ==
  \E p \in Invocations :
    /\ server[p].handled = 1
    /\ server[p].lastRequest.error = AccessDenied
    /\ server[p].lastRequest.code = Code1
    /\ server[p].lastRequest.state = server[p].expectedState
    /\ server[p].lastStatus = 400
    /\ server[p].outcome.error.site = "provider"
    /\ ~server[p].listening

\* C6: the promise of the listener settles at most once.  Its outcome is the
\* one the first request to the callback path determines, whatever requests
\* the listener handles afterwards; the local attempt posts at most one
\* authorization code, the code of that first request.
C6_SettledOnceByFirstCallback ==
  \A p \in Invocations :
    LET srv == server[p]
    IN  /\ srv.firstCallback # NoRequest =>
             srv.outcome = handleRequest(srv.firstCallback, srv.expectedState).call
        /\ (srv.firstCallback = NoRequest /\ srv.listenError = NoError) =>
             srv.outcome = Pending
        /\ Cardinality(PostsOf(p, "local")) <= 1
        /\ \A i \in PostsOf(p, "local") :
             /\ srv.outcome.tag = "resolved"
             /\ login[p].posts[i].code = srv.firstCallback.code

C6_Witness ==
  \E p \in Invocations :
    /\ server[p].handled = 2
    /\ server[p].firstCallback.code = Code1
    /\ server[p].lastRequest.path = CallbackPath
    /\ server[p].lastRequest # server[p].firstCallback
    /\ server[p].lastStatus = 400
    /\ login[p].pc = "token"
    /\ Cardinality(PostsOf(p, "local")) = 1
    /\ login[p].posts[1].code = Code1

C8_ExchangeFailureIsTerminal ==
  [][\A p \in Invocations :
       (login[p].pc = "token" /\ login'[p].pc \notin {"token", "userinfo"}) =>
          /\ login'[p].pc = "failed"
          /\ login'[p].urls = login[p].urls
          /\ login'[p].prompts = login[p].prompts
          /\ Len(login'[p].posts) = 1
    ]_vars

\* C9: the verifier of an authorization-code POST and the state the
\* authorization response was compared with belong to the attempt that
\* published the latest URL: the verifier hashes to that URL's challenge, the
\* state is that URL's state, and after a fallback neither is the one of the
\* abandoned local attempt.
C9_SecretsOfTheCurrentAttempt ==
  \A p \in Invocations :
    login[p].pc \in {"token", "userinfo", "done"} =>
      LET s == login[p]
          post == Last(s.posts)
          url == Last(s.urls)
      IN  /\ post.mode = s.mode
          /\ sha256Base64Url(post.code_verifier) = url.code_challenge
          /\ s.mode = "local" =>
               /\ server[p].expectedState = url.state
               /\ server[p].firstCallback.state = url.state
               /\ server[p].firstCallback.code = post.code
          /\ s.mode = "manual" =>
               /\ s.manual.state = url.state
               /\ post.code_verifier # s.local.verifier
               /\ url.state # s.local.state

C9_Witness ==
  \E p \in Invocations :
    /\ login[p].attempts = <<"local", "manual">>
    /\ login[p].pc = "token"
    /\ Len(login[p].urls) = 2
    /\ Last(login[p].posts).code_verifier = login[p].manual.verifier
    /\ login[p].local.verifier # Null

-----------------------------------------------------------------------------
(* The manual flow, the parser and the exchange: C11 to C14.               *)

\* The POSTs the manual flow of p has sent.
ManualPosts(p) == {i \in 1..Len(login[p].posts) : login[p].posts[i].mode = "manual"}

\* The operator of p pasted a URL whose state parameter is not the state
\* token of the manual attempt.
PastedOtherState(p) ==
  /\ login[p].input.kind = "url"
  /\ login[p].input.state \notin {Null, login[p].manual.state}

TypedNonEmpty(p) ==
  \/ login[p].input.kind = "url"
  \/ login[p].input.kind = "text" /\ Trim(login[p].input.text) # <<>>

\* C12 as stated: for every input that is not empty once trimmed,
\* parseCallbackInput returns {code, state} for a URL with a code parameter,
\* the state being the URL's state parameter, or expectedState when the URL
\* has none; the failure "missing code" for a URL without a code parameter;
\* and {code: trimmed input, state: expectedState} for text that is no URL.
C12_ParsesEveryNonEmptyInput ==
  \A p \in Invocations :
    TypedNonEmpty(p) =>
      LET input == login[p].input
          expectedState == login[p].manual.state
          parsed == parseCallbackInput(input, expectedState)
      IN  /\ (input.kind = "url" /\ input.code # Null) =>
                /\ parsed.error = Null
                /\ parsed.code = input.code
                /\ parsed.state = IF input.state # Null THEN input.state ELSE expectedState
          /\ (input.kind = "url" /\ input.code = Null) =>
                parsed.error = MsgMissingCodeParam
          /\ input.kind = "text" =>
                /\ parsed.error = Null
                /\ parsed.code = Trim(input.text)
                /\ parsed.state = expectedState

\* C12 as amended: the same for a URL whose code parameter is not empty and
\* whose state parameter is absent or not empty; an empty code parameter is a
\* missing code, an empty state parameter is the failure "missing state".
C12_ParsesEveryNonEmptyInputWithValues ==
  \A p \in Invocations :
    TypedNonEmpty(p) =>
      LET input == login[p].input
          expectedState == login[p].manual.state
          parsed == parseCallbackInput(input, expectedState)
      IN  /\ (input.kind = "url" /\ Truthy(input.code) /\ input.state # <<>>) =>
                /\ parsed.error = Null
                /\ parsed.code = input.code
                /\ parsed.state = IF input.state # Null THEN input.state ELSE expectedState
          /\ (input.kind = "url" /\ Truthy(input.code) /\ input.state = <<>>) =>
                parsed.error = MsgMissingStateParam
          /\ (input.kind = "url" /\ ~Truthy(input.code)) =>
                parsed.error = MsgMissingCodeParam
          /\ input.kind = "text" =>
                /\ parsed.error = Null
                /\ parsed.code = Trim(input.text)
                /\ parsed.state = expectedState

\* A URL with a code and no state parameter was pasted and its code posted:
\* the parser took expectedState.
C12_Witness ==
  \E p \in Invocations :
    /\ login[p].input = UrlInput(Code1, Null)
    /\ \E i \in ManualPosts(p) : login[p].posts[i].code = Code1

\* C13: every credential loginGoogleWorkspace returns has a refresh token
\* that is present and not empty; a success response of the token endpoint
\* without one ends the login with the error "No refresh token received. You
\* may need to revoke access ... and try again." and no credential.
C13_CredentialHasRefreshToken ==
  \A p \in Invocations :
    LET s == login[p]
    IN  /\ s.result.tag = "credential" =>
              /\ Truthy(s.result.credential.refresh)
              /\ s.result.credential.refresh = s.data.refresh_token
        /\ (s.data.kind = "ok" /\ ~Truthy(s.data.refresh_token)) =>
              /\ s.pc = "failed"
              /\ s.result.tag = "error"
              /\ s.result.error.message = MsgNoRefreshToken
              /\ s.result.credential = NoCredential

\* The token endpoint answered 200 without a refresh_token and the login
\* failed.
C13_Witness ==
  \E p \in Invocations :
    /\ login[p].data.kind = "ok"
    /\ login[p].data.refresh_token = Null
    /\ login[p].pc = "failed"

\* C14: once the token endpoint has answered with tokens, every answer of the
\* userinfo endpoint (fetch rejecting, a non-success status, a body without
\* email, a body with one) makes loginGoogleWorkspace return a credential with
\* the access token, the refresh token and the expiry of the token response;
\* the email is the body's, absent when the lookup failed.  Stated of every
\* step the login takes from its await of getUserEmail (the host ending the
\* process is no step of the login).
C14_LookupNeverChangesOutcome ==
  [][\A p \in Invocations :
       (login[p].pc = "userinfo" /\ login'[p] # login[p] /\ login'[p].pc # "exited") =>
         LET s == login[p]
             t == login'[p]
             credential == t.result.credential
         IN  /\ t.pc = "done"
             /\ t.result.tag = "credential"
             /\ t.lookup \in UserInfoResponses
             /\ credential.access = s.data.access_token
             /\ credential.refresh = s.data.refresh_token
             /\ credential.expires = expiresAt(t.now, s.data.expires_in)
             /\ credential.email =
                  IF t.lookup.kind = "ok" THEN t.lookup.email ELSE Null]_vars

\* The fetch of getUserEmail rejected and the login returned a credential
\* without email.
C14_Witness ==
  \E p \in Invocations :
    /\ login[p].lookup.kind = "reject"
    /\ login[p].pc = "done"
    /\ login[p].result.credential.access = Access1
    /\ login[p].result.credential.refresh = Refresh1
    /\ login[p].result.credential.email = Null

-----------------------------------------------------------------------------
(* Credentials, the probe, the port, the expiry, the method: C15 to C20.    *)

\* The process p runs with the client id or the client secret unset.
CredentialsUnset(p) ==
  ~login[p].env.GOOGLE_CLIENT_ID \/ ~login[p].env.GOOGLE_CLIENT_SECRET

\* C15: with the client id or the client secret unset, loginGoogleWorkspace
\* ends with the error "Google OAuth credentials not configured." and its
\* setup instructions, and in that invocation no listener was started, onUrl
\* was never called, the operator was never prompted and no POST was sent;
\* refreshGoogleToken ends with the same error and no POST sent.
C15_UnsetCredentialsFailBeforeActivity ==
  \A p \in Invocations :
    CredentialsUnset(p) =>
      /\ ~server[p].started
      /\ ~server[p].listening
      /\ login[p].urls = <<>>
      /\ login[p].prompts = 0
      /\ login[p].posts = <<>>
      /\ refresh[p].posts = <<>>
      /\ login[p].pc \in {"init", "off", "failed"}
      /\ login[p].pc = "failed" =>
            /\ login[p].result.tag = "error"
            /\ login[p].result.error.message = MsgCredentialsNotConfigured
      /\ refresh[p].pc \in {"idle", "failed"}
      /\ refresh[p].pc = "failed" =>
            /\ refresh[p].result.tag = "error"
            /\ refresh[p].result.error.message = MsgCredentialsNotConfigured

\* A login on a desktop with the client secret unset has failed.
C15_Witness ==
  \E p \in Invocations :
    /\ ~login[p].env.GOOGLE_CLIENT_SECRET
    /\ ~shouldUseManualOAuthFlow(login[p].env)
    /\ login[p].pc = "failed"
    /\ login[p].result.error.message = MsgCredentialsNotConfigured

\* The three conditions of the decision, read off the environment of p.
isContainerish(env) ==
  \/ env.SSH_CLIENT \/ env.SSH_TTY \/ env.SSH_CONNECTION
  \/ env.REMOTE_CONTAINERS \/ env.CODESPACES

KernelSays(env, needles) ==
  /\ env.platform = "linux"
  /\ env.procVersion # Null
  /\ \E needle \in needles : Includes(ToLowerCase(env.procVersion), needle)

isLinuxCompatLayer(env) == KernelSays(env, {NeedleMicrosoft, NeedleWsl})

isLinuxCompatLayerGen2(env) == KernelSays(env, {NeedleWsl2, NeedleMicrosoftStandard})

isHeadlessLinux(env) ==
  /\ env.platform = "linux"
  /\ ~env.DISPLAY /\ ~env.WAYLAND_DISPLAY
  /\ ~isLinuxCompatLayer(env)

\* The flow loginGoogleWorkspace chose for p, once it is called.
Decided(p) == login[p].pc \notin {"init", "off"}
DecidedManual(p) == login[p].attempts[1] = "manual"

\* C16: in every combination of the probe's inputs loginGoogleWorkspace takes
\* the manual flow exactly when isContainerish or isHeadlessLinux or
\* isLinuxCompatLayerGen2; SSH_CLIENT set gives manual whatever the display
\* variables, and Linux with no display variable and no signature of the
\* compatibility layer gives manual.
C16_DecisionIsTheDisjunction ==
  \A p \in Invocations :
    Decided(p) =>
      LET env == login[p].env
      IN  /\ DecidedManual(p) <=>
                (isContainerish(env) \/ isHeadlessLinux(env) \/ isLinuxCompatLayerGen2(env))
          /\ env.SSH_CLIENT => DecidedManual(p)
          /\ (env.platform = "linux" /\ ~env.DISPLAY /\ ~env.WAYLAND_DISPLAY
                /\ env.procVersion \in {Null, ProcVersionLinux}) => DecidedManual(p)

\* The first generation of the compatibility layer without a display, and
\* no marker: the local flow was taken.
C16_Witness ==
  \E p \in Invocations :
    /\ Decided(p)
    /\ login[p].env.procVersion = ProcVersionWsl1
    /\ login[p].env.platform = "linux"
    /\ ~login[p].env.DISPLAY /\ ~login[p].env.WAYLAND_DISPLAY
    /\ ~isContainerish(login[p].env)
    /\ ~DecidedManual(p)

\* C17 as stated: with none of the five markers set and DISPLAY or
\* WAYLAND_DISPLAY set, the local flow is taken, on every platform and with
\* every /proc/version.
C17_DisplayGivesLocal ==
  \A p \in Invocations :
    (Decided(p) /\ ~isContainerish(login[p].env)
       /\ (login[p].env.DISPLAY \/ login[p].env.WAYLAND_DISPLAY)) => ~DecidedManual(p)

\* C17 as amended: with none of the five markers set and a display variable
\* set, the local flow is taken unless the platform is Linux and
\* /proc/version has the signature of the second generation of the
\* compatibility layer; then the manual flow is taken.
C17_DisplayGivesLocalButOnGen2 ==
  \A p \in Invocations :
    (Decided(p) /\ ~isContainerish(login[p].env)
       /\ (login[p].env.DISPLAY \/ login[p].env.WAYLAND_DISPLAY)) =>
      (DecidedManual(p) <=> isLinuxCompatLayerGen2(login[p].env))

\* Linux with DISPLAY set, no marker and a plain kernel: the local flow.
C17_Witness ==
  \E p \in Invocations :
    /\ Decided(p)
    /\ ~isContainerish(login[p].env)
    /\ login[p].env.DISPLAY
    /\ login[p].env.platform = "linux"
    /\ login[p].env.procVersion = ProcVersionLinux
    /\ ~DecidedManual(p)

\* The invocations whose listener holds the port.
Bound == {p \in Invocations : server[p].listening}

\* C18: with two logins at once, at most one listener holds the port in every
\* state; a login that starts its listener while the other's holds the port
\* gets the listen error of a port in use, and a listener that failed to bind
\* never answers a request and never resolves with a code.
C18_OneListenerOnThePort ==
  /\ [](/\ Cardinality(Bound) <= 1
        /\ \A p \in Invocations :
             server[p].listenError # NoError =>
               /\ ~server[p].listening
               /\ server[p].handled = 0
               /\ server[p].outcome.tag # "resolved")
  /\ [][\A p \in Invocations :
          (~server[p].started /\ server'[p].started /\ Bound # {}) =>
             /\ Bound \subseteq Invocations \ {p}
             /\ ~server'[p].listening
             /\ server'[p].listenError.message = MsgListenEADDRINUSE]_vars

\* One login answers a request on the port while the other's listener has
\* been rejected with the port in use.
C18_Witness ==
  \E p, q \in Invocations :
    /\ p # q
    /\ server[p].handled > 0
    /\ server[q].started
    /\ server[q].listenError.message = MsgListenEADDRINUSE
    /\ server[q].outcome.tag = "rejected"

\* C19: for every lifetime expires_in (seconds) and every clock value now
\* (milliseconds), the expires of the credential exchangeCodeForTokens returns
\* and the expires refreshGoogleToken returns are now + expires_in * 1000 -
\* 300000.
C19_ExpiresFiveMinutesEarly ==
  \A p \in Invocations :
    /\ login[p].pc = "done" =>
          /\ login[p].now \in Clock
          /\ login[p].data.expires_in \in Lifetimes
          /\ login[p].result.credential.expires =
                login[p].now + login[p].data.expires_in * 1000 - 300000
    /\ refresh[p].pc = "done" =>
          /\ refresh[p].now \in Clock
          /\ refresh[p].data.expires_in \in Lifetimes
          /\ refresh[p].result.expires =
                refresh[p].now + refresh[p].data.expires_in * 1000 - 300000

\* A login has returned a credential for a lifetime of 3599 seconds read at
\* 1700000000: its expires is 1703299000.
C19_Witness ==
  \E p \in Invocations :
    /\ login[p].pc = "done"
    /\ login[p].now = 1700000000
    /\ login[p].data.expires_in = 3599
    /\ login[p].result.credential.expires = 1703299000

\* C20: a request to the callback path whose method is not GET leaves the
\* promise of the listener as it was, neither resolved nor rejected by it.
C20_OnlyGetSettles ==
  [][\A p \in Invocations :
       (/\ server'[p].handled = server[p].handled + 1
        /\ server'[p].lastRequest.path = CallbackPath
        /\ server'[p].lastRequest.method # "GET") =>
          server'[p].outcome = server[p].outcome]_vars

-----------------------------------------------------------------------------
(* PKCE, concurrent attempts, order, termination, logout: C21 to C25.      *)

\* The PKCE pairs and state tokens the attempts of p have minted.
Minted(p) == {login[p].local, login[p].manual} \ {NoSecrets}

\* The base64 encoding with padding of the 32 digest bytes has 44 characters,
\* the last of them "=".
PaddingCharacter == "="

LocalPosts(p) == {i \in 1..Len(login[p].posts) : login[p].posts[i].mode = "local"}

\* C22: with two logins interleaved in any order, the promise of a listener is
\* resolved with a code only by a request whose state parameter is the state
\* token of that listener's own attempt, which no other attempt has minted;
\* and the local flow posts that request's code, and no other, with the
\* verifier of its own attempt.
C22_CodeOnlyWithOwnState ==
  \A p \in Invocations :
    /\ server[p].outcome.tag = "resolved" =>
          /\ server[p].firstCallback.state = server[p].expectedState
          /\ server[p].expectedState = login[p].local.state
          /\ server[p].outcome.code = server[p].firstCallback.code
          /\ \A q \in Invocations \ {p} :
               server[p].firstCallback.state \notin {login[q].local.state,
                                                     login[q].manual.state}
    /\ \A i \in LocalPosts(p) :
          /\ server[p].outcome.tag = "resolved"
          /\ login[p].posts[i].code = server[p].outcome.code
          /\ login[p].posts[i].code_verifier = login[p].local.verifier

\* One login has posted the code of its own callback, and the listener of the
\* other was sent a request with the first one's state and rejected it.
C22_Witness ==
  \E p, q \in Invocations :
    /\ p # q
    /\ LocalPosts(p) # {}
    /\ server[q].firstCallback.state = login[p].local.state
    /\ server[q].outcome.tag = "rejected"
    /\ server[q].outcome.error.site = "stateMismatch"

\* The URLs the local attempt of p has handed to onUrl.
LocalUrls(p) ==
  {i \in 1..Len(login[p].urls) : login[p].urls[i].state = login[p].local.state}

\* C23: in no state has the local attempt handed its URL to onUrl without
\* having called startCallbackServer, and so server.listen(REDIRECT_PORT),
\* with the state of that URL.
C23_ListenerStartedBeforeUrl ==
  \A p \in Invocations :
    \A i \in LocalUrls(p) :
      (server[p].started /\ server[p].expectedState = login[p].urls[i].state)

\* The local attempt is in its await of onUrl and its listener holds the
\* port.
C23_Witness ==
  \E p \in Invocations :
    /\ login[p].pc = "localUrl"
    /\ LocalUrls(p) # {}
    /\ server[p].listening

\* The mode attempts a login may have gone through: loginGoogleWorkspace
\* enters the manual flow alone, the local flow alone, or the local flow and
\* then, from its catch, the manual flow.
ModeAttempts == {<<>>, <<"local">>, <<"manual">>, <<"local", "manual">>}

C24_AtMostTwoModeAttempts ==
  \A p \in Invocations : login[p].attempts \in ModeAttempts

\* A login that has been called and has neither returned nor thrown.
Running(p) == login[p].pc \notin {"off", "init", "done", "failed"}

\* C24: a login goes through at most two mode attempts, never from the manual
\* flow back to the local one, and, when every awaited external event
\* eventually occurs, every login that was called returns a credential (done)
\* or throws (failed).
C24_EveryLoginEnds ==
  /\ [](C24_AtMostTwoModeAttempts)
  /\ \A p \in Invocations : Running(p) ~> (login[p].pc \in {"done", "failed"})

\* The profiles of this provider in the store the command loaded.
OfProvider == listProfilesForProvider(cli.loaded, PROVIDER_NAME)

\* What the claim has the command leave in the store: with --account E every
\* profile but those of the provider whose stored email is E, without
\* --account every profile of another provider.
Expected ==
  IF cli.account # Null
  THEN Only(cli.loaded,
            {id \in DOMAIN cli.loaded :
               ~(id \in OfProvider /\ cli.loaded[id].email = cli.account)})
  ELSE Only(cli.loaded, (DOMAIN cli.loaded) \ OfProvider)

\* C25: after google logout has run (and not failed), without --account or
\* with an email address as its account, the store holds what Expected says,
\* and it was saved only when a profile was removed.
C25_LogoutRemovesExactlyTheAccount ==
  (cli.pc = "done" /\ cli.exitCode = 0 /\ cli.account # <<>>) =>
    /\ cli.disk = Expected
    /\ cli.saves > 0 => cli.removed > 0

\* Without --account: every profile of the provider is removed and no other.
C25_LogoutAllRemovesTheProvider ==
  (cli.pc = "done" /\ cli.exitCode = 0 /\ ~Truthy(cli.account)) =>
    /\ cli.disk = Only(cli.loaded, (DOMAIN cli.loaded) \ OfProvider)
    /\ cli.saves > 0 => cli.removed > 0

\* With --account E: what stays of the provider's profiles is the oauth
\* profiles with another email, or none, than E.
C25_LogoutAccountKeepsOtherOAuth ==
  (cli.pc = "done" /\ cli.exitCode = 0 /\ Truthy(cli.account)) =>
    /\ cli.disk = Only(cli.loaded,
                       {id \in DOMAIN cli.loaded :
                          id \in OfProvider =>
                            /\ cli.loaded[id].type = "oauth"
                            /\ cli.loaded[id].email # cli.account})
    /\ cli.saves > 0 => cli.removed > 0
=============================================================================
